---- MODULE Spec2Model ----
(***************************************************************************)
(* Model of the allocation engine of app.py: the fixed-capacity packer     *)
(* first_fit_decreasing (with class Rollo) and the catalog packer          *)
(* optimizar_fuentes_agrupadas with its statistics.                        *)
(*                                                                         *)
(* Numbers.  Lengths (largo, longitud_rollo) are integers in one length    *)
(* unit.  Powers are integers in hundredths of a watt, and the safety      *)
(* factor is an integer in hundredths (120 is 1.2), so that                *)
(* consumo_real * factor_seguridad is exact.  Ratios the code computes     *)
(* with a float division are kept as exact fractions [num, den].           *)
(***************************************************************************)
EXTENDS Integers, Sequences, FiniteSets, TLC

VARIABLES
    pc,                  \* position of the call in progress
    pedidos,             \* argument pedidos / pedidos_list: sequence of Pedido
    longitud_rollo,      \* argument longitud_rollo of first_fit_decreasing
    piezas,              \* local piezas of first_fit_decreasing, after the sort
    idx,                 \* number of loop iterations already executed
    rollos,              \* local rollos of first_fit_decreasing
    watts_por_metro,     \* argument of optimizar_fuentes_agrupadas
    fuentes_disponibles, \* argument of optimizar_fuentes_agrupadas (a list)
    factor_seguridad,    \* argument of optimizar_fuentes_agrupadas, hundredths
    piezas_consumo,      \* local piezas_consumo, after the sort
    fuentes_en_uso,      \* local fuentes_en_uso
    conteo_fuentes,      \* local conteo_fuentes (defaultdict(int))
    detalles,            \* local detalles
    acum,                \* the three accumulators of the formatting loop
    estadisticas,        \* returned estadisticas, None before the return
    pedidos_dict,        \* local pedidos_dict of the calculation handler
    resultados_fuentes,  \* st.session_state.resultados_fuentes
    consumo_requerido,   \* argument consumo_requerido_watts of a direct call
    resultado,           \* value returned by obtener_fuente_adecuada_individual
    rellamada,           \* a call on these arguments has returned before
    authenticated,       \* st.session_state.authenticated
    user_email,          \* st.session_state.user_email
    resultados,          \* st.session_state.resultados: None or <<the rolls>>
    calcular_fuentes_enabled  \* st.session_state.calcular_fuentes_enabled

vars == <<pc, pedidos, longitud_rollo, piezas, idx, rollos, watts_por_metro,
          fuentes_disponibles, factor_seguridad, piezas_consumo,
          fuentes_en_uso, conteo_fuentes, detalles, acum, estadisticas,
          pedidos_dict, resultados_fuentes, consumo_requerido, resultado,
          rellamada, authenticated, user_email, resultados,
          calcular_fuentes_enabled>>

\* the variables only the individual source mode uses
varsIndividual ==
    <<pedidos_dict, resultados_fuentes, consumo_requerido, resultado>>

\* the variables of the session that no packer touches
varsSesion ==
    <<authenticated, user_email, resultados, calcular_fuentes_enabled>>

\* Python's None; an optional number or list is None or the one-element <<x>>
None == <<>>

\* ------------------------------------------------------------------------
\* Bounds of the model
\* ------------------------------------------------------------------------
MaxLargo == 4
MaxCantidad == 2
MaxPedidos == 2
MaxRollo == 7

\* hundredths of a watt
W(x) == x * 100

\* ------------------------------------------------------------------------
\* Generic helpers
\* ------------------------------------------------------------------------
RECURSIVE SumSeq(_)
SumSeq(s) == IF s = <<>> THEN 0 ELSE Head(s) + SumSeq(Tail(s))

\* [x] * n
Repeat(x, n) == [j \in 1..n |-> x]

\* class Pedido
Pedido(largo, cantidad) == [largo |-> largo, cantidad |-> cantidad]

\* ------------------------------------------------------------------------
\* class Rollo
\* ------------------------------------------------------------------------
Rollo(longitud_total) ==
    [longitud_total |-> longitud_total, piezas |-> <<>>, espacio_usado |-> 0]

\* mutant: the test forgets the piece to add
puede_agregar_sin_pieza(rollo, largo_pieza) ==
    rollo.espacio_usado <= rollo.longitud_total

puede_agregar(rollo, largo_pieza) ==
    (rollo.espacio_usado + largo_pieza) <= rollo.longitud_total

\* the Rollo after the call; the boolean it returns is puede_agregar
agregar_pieza(rollo, largo_pieza) ==
    IF puede_agregar(rollo, largo_pieza)
    THEN [rollo EXCEPT !.piezas = Append(@, largo_pieza),
                       !.espacio_usado = @ + largo_pieza]
    ELSE rollo

desperdicio(rollo) == rollo.longitud_total - rollo.espacio_usado

\* ------------------------------------------------------------------------
\* first_fit_decreasing
\* ------------------------------------------------------------------------
\* piezas.extend([pedido.largo] * pedido.cantidad) for each pedido
RECURSIVE ExpandirPiezas(_)
ExpandirPiezas(ps) ==
    IF ps = <<>> THEN <<>>
    ELSE Repeat(Head(ps).largo, Head(ps).cantidad) \o ExpandirPiezas(Tail(ps))

\* insert x after every element >= x of the non-increasing sequence s
RECURSIVE InsertDesc(_, _)
InsertDesc(s, x) ==
    IF s = <<>> THEN <<x>>
    ELSE IF Head(s) >= x THEN <<Head(s)>> \o InsertDesc(Tail(s), x)
    ELSE <<x>> \o s

\* piezas.sort(reverse=True)
RECURSIVE SortReverse(_)
SortReverse(s) ==
    IF s = <<>> THEN <<>>
    ELSE InsertDesc(SortReverse(SubSeq(s, 1, Len(s) - 1)), s[Len(s)])

\* mutant: the last roll with room instead of the first
PrimerRollo_ultimo(rs, pieza) ==
    LET cabe == {r \in 1..Len(rs) : puede_agregar(rs[r], pieza)}
    IN  IF cabe = {} THEN 0 ELSE CHOOSE r \in cabe : \A q \in cabe : r >= q

\* index of the roll on which the inner loop breaks, 0 when it never breaks
PrimerRollo(rs, pieza) ==
    LET cabe == {r \in 1..Len(rs) : puede_agregar(rs[r], pieza)}
    IN  IF cabe = {} THEN 0 ELSE CHOOSE r \in cabe : \A q \in cabe : r <= q

\* mutant: the existing rolls are never tried
ColocarPieza_sinReuso(rs, pieza, longitud) ==
    Append(rs, agregar_pieza(Rollo(longitud), pieza))

\* one iteration of "for pieza in piezas"
ColocarPieza(rs, pieza, longitud) ==
    LET r == PrimerRollo(rs, pieza)
    IN  IF r # 0
        THEN [rs EXCEPT ![r] = agregar_pieza(@, pieza)]
        ELSE Append(rs, agregar_pieza(Rollo(longitud), pieza))

\* the loop "for pieza in piezas" from the list of rolls rs on
RECURSIVE ColocarTodas(_, _, _)
ColocarTodas(rs, pzs, longitud) ==
    IF pzs = <<>> THEN rs
    ELSE ColocarTodas(ColocarPieza(rs, Head(pzs), longitud), Tail(pzs), longitud)

\* the value first_fit_decreasing returns
first_fit_decreasing(ps, longitud) ==
    ColocarTodas(<<>>, SortReverse(ExpandirPiezas(ps)), longitud)

\* ------------------------------------------------------------------------
\* obtener_fuente_adecuada_individual
\* ------------------------------------------------------------------------
RECURSIVE MinLista(_)
MinLista(s) ==
    IF Len(s) = 1 THEN s[1]
    ELSE LET m == MinLista(Tail(s)) IN IF Head(s) <= m THEN Head(s) ELSE m

RECURSIVE MaxLista(_)
MaxLista(s) ==
    IF Len(s) = 1 THEN s[1]
    ELSE LET m == MaxLista(Tail(s)) IN IF Head(s) >= m THEN Head(s) ELSE m

\* mutant: a rating equal to the adjusted consumption is not enough
obtener_fuente_estricta(consumo, fuentes, factor) ==
    LET consumo_ajustado == (consumo * factor) \div 100
        suficiente(f) == f > consumo_ajustado
        fuentes_suficientes == SelectSeq(fuentes, suficiente)
    IN  IF fuentes_suficientes = <<>>
        THEN IF fuentes # <<>>
             THEN [fuente |-> <<MaxLista(fuentes)>>,
                   advertencia |-> "excede todas las fuentes"]
             ELSE [fuente |-> None, advertencia |-> "No hay fuentes disponibles"]
        ELSE [fuente |-> <<MinLista(fuentes_suficientes)>>, advertencia |-> ""]

\* the pair (fuente_asignada, mensaje_advertencia) returned for the arguments
\* consumo_requerido_watts, fuentes_disponibles_watts and factor_seguridad;
\* the message is kept by its kind
obtener_fuente_adecuada_individual(consumo, fuentes, factor) ==
    LET consumo_ajustado == (consumo * factor) \div 100
        suficiente(f) == f >= consumo_ajustado
        fuentes_suficientes == SelectSeq(fuentes, suficiente)
    IN  IF fuentes_suficientes = <<>>
        THEN IF fuentes # <<>>
             THEN [fuente |-> <<MaxLista(fuentes)>>,
                   advertencia |-> "excede todas las fuentes"]
             ELSE [fuente |-> None, advertencia |-> "No hay fuentes disponibles"]
        ELSE [fuente |-> <<MinLista(fuentes_suficientes)>>, advertencia |-> ""]

\* ------------------------------------------------------------------------
\* optimizar_fuentes_agrupadas
\* ------------------------------------------------------------------------
\* mutant: a repeated length replaces the count instead of adding to it
DictAcumular_reemplaza(d, p) ==
    IF \E j \in 1..Len(d) : d[j].largo = p.largo
    THEN [j \in 1..Len(d) |->
            IF d[j].largo = p.largo
            THEN [d[j] EXCEPT !.cantidad = p.cantidad] ELSE d[j]]
    ELSE Append(d, [largo |-> p.largo, cantidad |-> p.cantidad])

\* pedidos_dict[p.largo] = pedidos_dict.get(p.largo, 0) + p.cantidad
\* (a dict keeps its keys in insertion order: a sequence of items)
DictAcumular(d, p) ==
    IF \E j \in 1..Len(d) : d[j].largo = p.largo
    THEN [j \in 1..Len(d) |->
            IF d[j].largo = p.largo
            THEN [d[j] EXCEPT !.cantidad = @ + p.cantidad] ELSE d[j]]
    ELSE Append(d, [largo |-> p.largo, cantidad |-> p.cantidad])

RECURSIVE PedidosDict(_)
PedidosDict(ps) ==
    IF ps = <<>> THEN <<>>
    ELSE DictAcumular(PedidosDict(SubSeq(ps, 1, Len(ps) - 1)), ps[Len(ps)])

\* the dict appended for one piece
PiezaConsumo(largo, watts, factor) ==
    LET consumo_real == largo * watts
    IN  [largo |-> largo,
         consumo_real |-> consumo_real,
         consumo_ajustado |-> (consumo_real * factor) \div 100]

RECURSIVE ExpandirConsumo(_, _, _)
ExpandirConsumo(d, watts, factor) ==
    IF d = <<>> THEN <<>>
    ELSE Repeat(PiezaConsumo(Head(d).largo, watts, factor), Head(d).cantidad)
         \o ExpandirConsumo(Tail(d), watts, factor)

\* insert x after every element whose key is >= the key of x
RECURSIVE InsertDescKey(_, _)
InsertDescKey(s, x) ==
    IF s = <<>> THEN <<x>>
    ELSE IF Head(s).consumo_ajustado >= x.consumo_ajustado
         THEN <<Head(s)>> \o InsertDescKey(Tail(s), x)
         ELSE <<x>> \o s

\* mutant: the pieces stay in the order of the expansion
SortConsumo_sinOrden(s) == s

\* piezas_consumo.sort(key=lambda x: x["consumo_ajustado"], reverse=True)
RECURSIVE SortConsumo(_)
SortConsumo(s) ==
    IF s = <<>> THEN <<>>
    ELSE InsertDescKey(SortConsumo(SubSeq(s, 1, Len(s) - 1)), s[Len(s)])

\* mutant: the ratings in descending order
RECURSIVE sorted_desc(_)
sorted_desc(s) ==
    IF s = <<>> THEN <<>>
    ELSE InsertDesc(sorted_desc(SubSeq(s, 1, Len(s) - 1)), s[Len(s)])

RECURSIVE InsertAsc(_, _)
InsertAsc(s, x) ==
    IF s = <<>> THEN <<x>>
    ELSE IF Head(s) <= x THEN <<Head(s)>> \o InsertAsc(Tail(s), x)
    ELSE <<x>> \o s

\* sorted(fuentes_disponibles)
RECURSIVE sorted(_)
sorted(s) ==
    IF s = <<>> THEN <<>>
    ELSE InsertAsc(sorted(SubSeq(s, 1, Len(s) - 1)), s[Len(s)])

\* mutant: the smallest rating instead of the largest
MaxFuente_min(disponibles) ==
    IF disponibles = <<>> THEN None
    ELSE <<CHOOSE m \in {disponibles[j] : j \in 1..Len(disponibles)} :
            \A j \in 1..Len(disponibles) : disponibles[j] >= m>>

\* max(fuentes_disponibles) if fuentes_disponibles else None
MaxFuente(disponibles) ==
    IF disponibles = <<>> THEN None
    ELSE <<CHOOSE m \in {disponibles[j] : j \in 1..Len(disponibles)} :
            \A j \in 1..Len(disponibles) : disponibles[j] <= m>>

\* truth value of "if max_fuente:"
Truthy(x) == x # None /\ x[1] # 0

\* mutant: the count of a rating is set to 1 instead of incremented
Incrementar_fijo(conteo, k) ==
    IF k \in DOMAIN conteo THEN conteo ELSE conteo @@ (k :> 1)

\* conteo_fuentes[k] += 1 on a defaultdict(int)
Incrementar(conteo, k) ==
    IF k \in DOMAIN conteo THEN [conteo EXCEPT ![k] = @ + 1]
    ELSE conteo @@ (k :> 1)

\* mutant: any source with capacity left, whatever the unit needs
PrimeraFuente_conResto(fs, consumo) ==
    LET cabe == {f \in 1..Len(fs) : fs[f].restante > 0}
    IN  IF cabe = {} THEN 0 ELSE CHOOSE f \in cabe : \A q \in cabe : f <= q

\* mutant: the first source in use, without the test on its remaining capacity
PrimeraFuente_sinPrueba(fs, consumo) ==
    IF fs = <<>> THEN 0 ELSE 1

\* index of the source on which the inner loop breaks, 0 when it never does
PrimeraFuente(fs, consumo) ==
    LET cabe == {f \in 1..Len(fs) : fs[f].restante >= consumo}
    IN  IF cabe = {} THEN 0 ELSE CHOOSE f \in cabe : \A q \in cabe : f <= q

\* the capacity on which "for fuente_w in sorted(...)" breaks, None otherwise
FuenteSuficiente(disponibles, consumo) ==
    LET orden == sorted(disponibles)
        ok == {j \in 1..Len(orden) : orden[j] >= consumo}
    IN  IF ok = {} THEN None
        ELSE <<orden[CHOOSE j \in ok : \A q \in ok : j <= q]>>

\* mutant: the new source is charged the unadjusted consumption
NuevaFuente_real(potencia, pieza) ==
    [potencia |-> potencia,
     restante |-> potencia - pieza.consumo_real,
     piezas |-> <<pieza>>]

NuevaFuente(potencia, pieza) ==
    [potencia |-> potencia,
     restante |-> potencia - pieza.consumo_ajustado,
     piezas |-> <<pieza>>]

\* one iteration of "for pieza in piezas_consumo": the pair after it
AsignarPieza(fs, conteo, pieza, disponibles) ==
    LET consumo == pieza.consumo_ajustado
        f == PrimeraFuente(fs, consumo)
        fuente_w == FuenteSuficiente(disponibles, consumo)
        max_fuente == MaxFuente(disponibles)
    IN  IF f # 0
        THEN [fuentes |-> [fs EXCEPT ![f] =
                              [@ EXCEPT !.restante = @ - consumo,
                                        !.piezas = Append(@, pieza)]],
              conteo |-> conteo]
        ELSE IF fuente_w # None
        THEN [fuentes |-> Append(fs, NuevaFuente(fuente_w[1], pieza)),
              conteo |-> Incrementar(conteo, fuente_w[1])]
        ELSE IF Truthy(max_fuente)
        THEN [fuentes |-> Append(fs, NuevaFuente(max_fuente[1], pieza)),
              conteo |-> Incrementar(conteo, max_fuente[1])]
        ELSE [fuentes |-> fs, conteo |-> conteo]

\* mutant: the remaining capacity as it is, negative included
Max0_sinTope(x) == x

Max0(x) == IF x > 0 THEN x ELSE 0

consumo_total(fuente) == fuente.potencia - fuente.restante

\* mutant: a source with nothing left counts as overloaded
Estado_sinResto(fuente) ==
    LET alMenos(pct) == IF fuente.potencia > 0
                        THEN consumo_total(fuente) * 100 >= pct * fuente.potencia
                        ELSE 0 >= pct
    IN  IF fuente.restante <= 0 THEN "SOBRECARGA"
        ELSE IF alMenos(90) THEN "Casi al limite"
        ELSE IF alMenos(70) THEN "Optimo"
        ELSE "Subutilizada"

\* the label chosen by the if/elif chain on restante and porcentaje_uso,
\* porcentaje_uso = (consumo_total / potencia) * 100 if potencia > 0 else 0
Estado(fuente) ==
    LET alMenos(pct) == IF fuente.potencia > 0
                        THEN consumo_total(fuente) * 100 >= pct * fuente.potencia
                        ELSE 0 >= pct
    IN  IF fuente.restante < 0 THEN "SOBRECARGA"
        ELSE IF alMenos(90) THEN "Casi al limite"
        ELSE IF alMenos(70) THEN "Optimo"
        ELSE "Subutilizada"

\* the row appended to detalles (its numeric fields and the state label)
Detalle(n, fuente) ==
    [ID |-> n,
     Potencia |-> fuente.potencia,
     N_Piezas |-> Len(fuente.piezas),
     Consumo |-> consumo_total(fuente),
     Disponible |-> Max0(fuente.restante),
     Estado |-> Estado(fuente)]

\* the accumulators after the iteration on one source
Acumular(a, fuente) ==
    [total_consumo_real |-> a.total_consumo_real + consumo_total(fuente),
     total_capacidad_desperdiciada |->
         a.total_capacidad_desperdiciada + Max0(fuente.restante),
     fuentes_sobrecargadas |->
         a.fuentes_sobrecargadas + (IF fuente.restante < 0 THEN 1 ELSE 0)]

SumPotencia(fs) == SumSeq([j \in 1..Len(fs) |-> fs[j].potencia])

\* mutant: the division without the test on total_fuentes
EficienciaPromedio_sinGuarda(total_consumo_real, fs) ==
    [num |-> total_consumo_real * 100, den |-> SumPotencia(fs)]

\* (total_consumo_real / sum(potencia)) * 100 as an exact fraction, 0 when
\* there is no source
EficienciaPromedio(total_consumo_real, fs) ==
    IF Len(fs) > 0
    THEN [num |-> total_consumo_real * 100, den |-> SumPotencia(fs)]
    ELSE [num |-> 0, den |-> 1]

Estadisticas(a, fs, pzs) ==
    [total_fuentes |-> Len(fs),
     total_consumo_real |-> a.total_consumo_real,
     total_capacidad_instalada |-> SumPotencia(fs),
     capacidad_desperdiciada |-> a.total_capacidad_desperdiciada,
     eficiencia_promedio |-> EficienciaPromedio(a.total_consumo_real, fs),
     fuentes_sobrecargadas |-> a.fuentes_sobrecargadas,
     total_piezas |-> Len(pzs)]

\* the loop "for pieza in piezas_consumo" from the pair (fs, conteo) on
RECURSIVE AsignarTodas(_, _, _, _)
AsignarTodas(fs, conteo, pzs, disponibles) ==
    IF pzs = <<>> THEN [fuentes |-> fs, conteo |-> conteo]
    ELSE LET r == AsignarPieza(fs, conteo, Head(pzs), disponibles)
         IN  AsignarTodas(r.fuentes, r.conteo, Tail(pzs), disponibles)

\* the accumulators after the formatting loop over the sources fs
RECURSIVE AcumularTodas(_, _)
AcumularTodas(a, fs) ==
    IF fs = <<>> THEN a ELSE AcumularTodas(Acumular(a, Head(fs)), Tail(fs))

\* the triple (conteo_fuentes, detalles_asignacion, estadisticas) returned
optimizar_fuentes_agrupadas(ps, watts, disponibles, factor) ==
    LET pzs == SortConsumo(ExpandirConsumo(PedidosDict(ps), watts, factor))
        r == AsignarTodas(<<>>, <<>>, pzs, disponibles)
        a == AcumularTodas([total_consumo_real |-> 0,
                            total_capacidad_desperdiciada |-> 0,
                            fuentes_sobrecargadas |-> 0], r.fuentes)
    IN  <<r.conteo,
          [j \in 1..Len(r.fuentes) |-> Detalle(j, r.fuentes[j])],
          Estadisticas(a, r.fuentes, pzs)>>

\* ------------------------------------------------------------------------
\* Calculation handler, mode "Una fuente por corte"
\* ------------------------------------------------------------------------
\* mutant: the source is counted once per order length
SumarConteo_uno(conteo, k, n) ==
    IF k \in DOMAIN conteo THEN [conteo EXCEPT ![k] = @ + 1]
    ELSE conteo @@ (k :> 1)

\* conteo_fuentes[fuente] += cant on a defaultdict(int)
SumarConteo(conteo, k, n) ==
    IF k \in DOMAIN conteo THEN [conteo EXCEPT ![k] = @ + n]
    ELSE conteo @@ (k :> n)

\* the row appended to detalles for one order length
DetalleIndividual(item, consumo, factor, r) ==
    [Largo |-> item.largo,
     Cantidad |-> item.cantidad,
     Consumo |-> consumo,
     ConsumoAjustado |-> (consumo * factor) \div 100,
     Fuente |-> r.fuente[1],
     Estado |-> IF r.advertencia # "" THEN r.advertencia ELSE "OK"]

\* one iteration of "for largo, cant in pedidos_dict.items()"
AsignarIndividual(conteo, dets, item, watts, disponibles, factor) ==
    LET consumo == item.largo * watts
        r == obtener_fuente_adecuada_individual(consumo, disponibles, factor)
    IN  IF Truthy(r.fuente)
        THEN [conteo |-> SumarConteo(conteo, r.fuente[1], item.cantidad),
              detalles |-> Append(dets, DetalleIndividual(item, consumo,
                                                          factor, r))]
        ELSE [conteo |-> conteo, detalles |-> dets]

\* ------------------------------------------------------------------------
\* Inputs
\* ------------------------------------------------------------------------
Largos == 1..MaxLargo
Cantidades == 0..MaxCantidad
Pedidos == [largo : Largos, cantidad : Cantidades]
ListasPedidos == UNION {[1..n -> Pedidos] : n \in 0..MaxPedidos}
LongitudesRollo == 1..MaxRollo
\* catalogs: empty, a single rating, the ratings in and out of order, and a
\* repeated rating
Catalogos == {<<>>, <<W(30)>>, <<W(30), W(60), W(100)>>,
              <<W(100), W(30), W(60)>>, <<W(60), W(60)>>}
ConsumosPorMetro == {W(20)}
\* safety factors 1.0, 1.2 and 1.5
Factores == {100, 120, 150}
\* the factors the slider of 5 to 50 per cent gives
FactoresSlider == {f \in Factores : f >= 105 /\ f <= 150}
\* consumptions of one piece
Consumos == {l * w : l \in Largos, w \in ConsumosPorMetro}
\* order lists of a session at a calculation: not empty, counts >= 1
ListasSesion ==
    {ps \in ListasPedidos :
        ps # <<>> /\ \A j \in 1..Len(ps) : ps[j].cantidad >= 1}

\* ------------------------------------------------------------------------
\* State machine
\* ------------------------------------------------------------------------
InitFFD ==
    /\ pc = "ffd_call"
    /\ pedidos \in ListasPedidos
    /\ longitud_rollo \in LongitudesRollo
    /\ watts_por_metro = 0
    /\ fuentes_disponibles = <<>>
    /\ factor_seguridad = 0
    /\ consumo_requerido = 0

InitFuentes ==
    /\ pc = "fa_call"
    /\ pedidos \in ListasPedidos
    /\ longitud_rollo = 0
    /\ watts_por_metro \in ConsumosPorMetro
    /\ fuentes_disponibles \in Catalogos
    /\ factor_seguridad \in Factores
    /\ consumo_requerido = 0

\* a direct call of obtener_fuente_adecuada_individual
InitAsignador ==
    /\ pc = "ofi_call"
    /\ pedidos = <<>>
    /\ longitud_rollo = 0
    /\ watts_por_metro = 0
    /\ consumo_requerido \in Consumos
    /\ fuentes_disponibles \in Catalogos
    /\ factor_seguridad \in Factores

\* the calculation handler at the source computation, individual mode
InitIndividual ==
    /\ pc = "ind_call"
    /\ pedidos \in ListasSesion
    /\ longitud_rollo = 0
    /\ watts_por_metro \in ConsumosPorMetro
    /\ fuentes_disponibles \in Catalogos
    /\ factor_seguridad \in FactoresSlider
    /\ consumo_requerido = 0

\* nothing has run yet: the locals and the results are empty
InitLocales ==
    /\ rellamada = FALSE
    /\ authenticated = FALSE
    /\ user_email = None
    /\ resultados = None
    /\ calcular_fuentes_enabled = FALSE
    /\ pedidos_dict = <<>>
    /\ resultados_fuentes = None
    /\ resultado = None
    /\ piezas = <<>>
    /\ idx = 0
    /\ rollos = <<>>
    /\ piezas_consumo = <<>>
    /\ fuentes_en_uso = <<>>
    /\ conteo_fuentes = <<>>
    /\ detalles = <<>>
    /\ acum = None
    /\ estadisticas = None

Init ==
    /\ (InitFFD \/ InitFuentes \/ InitAsignador \/ InitIndividual)
    /\ InitLocales

\* mutant: the list of rolls is not created anew at the start of a call
FFD_Expandir_sinReinicio ==
    /\ pc = "ffd_call"
    /\ UNCHANGED rellamada
    /\ UNCHANGED varsSesion
    /\ piezas' = SortReverse(ExpandirPiezas(pedidos))
    /\ idx' = 0
    /\ pc' = "ffd_loop"
    /\ UNCHANGED <<pedidos, longitud_rollo, watts_por_metro, rollos,
                   fuentes_disponibles, factor_seguridad, piezas_consumo,
                   fuentes_en_uso, conteo_fuentes, detalles, acum,
                   estadisticas>>
    /\ UNCHANGED varsIndividual

FFD_Expandir ==
    /\ pc = "ffd_call"
    /\ UNCHANGED rellamada
    /\ UNCHANGED varsSesion
    /\ piezas' = SortReverse(ExpandirPiezas(pedidos))
    /\ rollos' = <<>>
    /\ idx' = 0
    /\ pc' = "ffd_loop"
    /\ UNCHANGED <<pedidos, longitud_rollo, watts_por_metro,
                   fuentes_disponibles, factor_seguridad, piezas_consumo,
                   fuentes_en_uso, conteo_fuentes, detalles, acum,
                   estadisticas>>
    /\ UNCHANGED varsIndividual

\* mutant: a piece that fits no roll is dropped once a roll exists
FFD_Colocar_sinRolloNuevo ==
    /\ pc = "ffd_loop"
    /\ UNCHANGED rellamada
    /\ UNCHANGED varsSesion
    /\ idx < Len(piezas)
    /\ rollos' = IF rollos # <<>> /\ PrimerRollo(rollos, piezas[idx + 1]) = 0
                 THEN rollos
                 ELSE ColocarPieza(rollos, piezas[idx + 1], longitud_rollo)
    /\ idx' = idx + 1
    /\ UNCHANGED <<pc, pedidos, longitud_rollo, piezas, watts_por_metro,
                   fuentes_disponibles, factor_seguridad, piezas_consumo,
                   fuentes_en_uso, conteo_fuentes, detalles, acum,
                   estadisticas>>
    /\ UNCHANGED varsIndividual

FFD_Colocar ==
    /\ pc = "ffd_loop"
    /\ UNCHANGED rellamada
    /\ UNCHANGED varsSesion
    /\ idx < Len(piezas)
    /\ rollos' = ColocarPieza(rollos, piezas[idx + 1], longitud_rollo)
    /\ idx' = idx + 1
    /\ UNCHANGED <<pc, pedidos, longitud_rollo, piezas, watts_por_metro,
                   fuentes_disponibles, factor_seguridad, piezas_consumo,
                   fuentes_en_uso, conteo_fuentes, detalles, acum,
                   estadisticas>>
    /\ UNCHANGED varsIndividual

FFD_Return ==
    /\ pc = "ffd_loop"
    /\ UNCHANGED rellamada
    /\ UNCHANGED varsSesion
    /\ idx = Len(piezas)
    /\ pc' = "ffd_done"
    /\ UNCHANGED <<pedidos, longitud_rollo, piezas, idx, rollos,
                   watts_por_metro, fuentes_disponibles, factor_seguridad,
                   piezas_consumo, fuentes_en_uso, conteo_fuentes, detalles,
                   acum, estadisticas>>
    /\ UNCHANGED varsIndividual

FA_Expandir ==
    /\ pc = "fa_call"
    /\ UNCHANGED rellamada
    /\ UNCHANGED varsSesion
    /\ piezas_consumo' = SortConsumo(ExpandirConsumo(PedidosDict(pedidos),
                                        watts_por_metro, factor_seguridad))
    /\ fuentes_en_uso' = <<>>
    /\ conteo_fuentes' = <<>>
    /\ idx' = 0
    /\ pc' = "fa_loop"
    /\ UNCHANGED <<pedidos, longitud_rollo, piezas, rollos, watts_por_metro,
                   fuentes_disponibles, factor_seguridad, detalles, acum,
                   estadisticas>>
    /\ UNCHANGED varsIndividual

FA_Asignar ==
    /\ pc = "fa_loop"
    /\ UNCHANGED rellamada
    /\ UNCHANGED varsSesion
    /\ idx < Len(piezas_consumo)
    /\ LET r == AsignarPieza(fuentes_en_uso, conteo_fuentes,
                             piezas_consumo[idx + 1], fuentes_disponibles)
       IN  /\ fuentes_en_uso' = r.fuentes
           /\ conteo_fuentes' = r.conteo
    /\ idx' = idx + 1
    /\ UNCHANGED <<pc, pedidos, longitud_rollo, piezas, rollos,
                   watts_por_metro, fuentes_disponibles, factor_seguridad,
                   piezas_consumo, detalles, acum, estadisticas>>
    /\ UNCHANGED varsIndividual

\* end of the assignment loop: the initialisations before the formatting loop
FA_FinAsignar ==
    /\ pc = "fa_loop"
    /\ UNCHANGED rellamada
    /\ UNCHANGED varsSesion
    /\ idx = Len(piezas_consumo)
    /\ detalles' = <<>>
    /\ acum' = [total_consumo_real |-> 0,
                total_capacidad_desperdiciada |-> 0,
                fuentes_sobrecargadas |-> 0]
    /\ idx' = 0
    /\ pc' = "fa_format"
    /\ UNCHANGED <<pedidos, longitud_rollo, piezas, rollos, watts_por_metro,
                   fuentes_disponibles, factor_seguridad, piezas_consumo,
                   fuentes_en_uso, conteo_fuentes, estadisticas>>
    /\ UNCHANGED varsIndividual

\* one iteration of "for idx, fuente in enumerate(fuentes_en_uso, 1)"
FA_Detallar ==
    /\ pc = "fa_format"
    /\ UNCHANGED rellamada
    /\ UNCHANGED varsSesion
    /\ idx < Len(fuentes_en_uso)
    /\ detalles' = Append(detalles, Detalle(idx + 1, fuentes_en_uso[idx + 1]))
    /\ acum' = Acumular(acum, fuentes_en_uso[idx + 1])
    /\ idx' = idx + 1
    /\ UNCHANGED <<pc, pedidos, longitud_rollo, piezas, rollos,
                   watts_por_metro, fuentes_disponibles, factor_seguridad,
                   piezas_consumo, fuentes_en_uso, conteo_fuentes,
                   estadisticas>>
    /\ UNCHANGED varsIndividual

FA_Return ==
    /\ pc = "fa_format"
    /\ UNCHANGED rellamada
    /\ UNCHANGED varsSesion
    /\ idx = Len(fuentes_en_uso)
    /\ estadisticas' = Estadisticas(acum, fuentes_en_uso, piezas_consumo)
    /\ pc' = "fa_done"
    /\ UNCHANGED <<pedidos, longitud_rollo, piezas, idx, rollos,
                   watts_por_metro, fuentes_disponibles, factor_seguridad,
                   piezas_consumo, fuentes_en_uso, conteo_fuentes, detalles,
                   acum>>
    /\ UNCHANGED varsIndividual

\* a direct call of the single-unit assigner
OFI_Return ==
    /\ pc = "ofi_call"
    /\ UNCHANGED rellamada
    /\ UNCHANGED varsSesion
    /\ resultado' = obtener_fuente_adecuada_individual(
                        consumo_requerido, fuentes_disponibles, factor_seguridad)
    /\ pc' = "ofi_done"
    /\ UNCHANGED <<pedidos, longitud_rollo, piezas, idx, rollos,
                   watts_por_metro, fuentes_disponibles, factor_seguridad,
                   piezas_consumo, fuentes_en_uso, conteo_fuentes, detalles,
                   acum, estadisticas, pedidos_dict, resultados_fuentes,
                   consumo_requerido>>

\* the handler up to the loop of the individual mode; with no rating parsed
\* it stores None
IND_Preparar ==
    /\ pc = "ind_call"
    /\ UNCHANGED rellamada
    /\ UNCHANGED varsSesion
    /\ IF sorted(fuentes_disponibles) # <<>>
       THEN /\ pedidos_dict' = PedidosDict(pedidos)
            /\ conteo_fuentes' = <<>>
            /\ detalles' = <<>>
            /\ idx' = 0
            /\ pc' = "ind_loop"
            /\ UNCHANGED resultados_fuentes
       ELSE /\ resultados_fuentes' = None
            /\ pc' = "ind_done"
            /\ UNCHANGED <<pedidos_dict, conteo_fuentes, detalles, idx>>
    /\ UNCHANGED <<pedidos, longitud_rollo, piezas, rollos, watts_por_metro,
                   fuentes_disponibles, factor_seguridad, piezas_consumo,
                   fuentes_en_uso, acum, estadisticas, consumo_requerido,
                   resultado>>

IND_Asignar ==
    /\ pc = "ind_loop"
    /\ UNCHANGED rellamada
    /\ UNCHANGED varsSesion
    /\ idx < Len(pedidos_dict)
    /\ LET r == AsignarIndividual(conteo_fuentes, detalles,
                                  pedidos_dict[idx + 1], watts_por_metro,
                                  sorted(fuentes_disponibles), factor_seguridad)
       IN  /\ conteo_fuentes' = r.conteo
           /\ detalles' = r.detalles
    /\ idx' = idx + 1
    /\ UNCHANGED <<pc, pedidos, longitud_rollo, piezas, rollos,
                   watts_por_metro, fuentes_disponibles, factor_seguridad,
                   piezas_consumo, fuentes_en_uso, acum, estadisticas,
                   pedidos_dict, resultados_fuentes, consumo_requerido,
                   resultado>>

IND_Guardar ==
    /\ pc = "ind_loop"
    /\ UNCHANGED rellamada
    /\ UNCHANGED varsSesion
    /\ idx = Len(pedidos_dict)
    /\ resultados_fuentes' = [modo |-> "individual",
                              conteo |-> conteo_fuentes,
                              detalles |-> detalles]
    /\ pc' = "ind_done"
    /\ UNCHANGED <<pedidos, longitud_rollo, piezas, idx, rollos,
                   watts_por_metro, fuentes_disponibles, factor_seguridad,
                   piezas_consumo, fuentes_en_uso, conteo_fuentes, detalles,
                   acum, estadisticas, pedidos_dict, consumo_requerido,
                   resultado>>

\* the caller invokes the packer that returned once more, on the objects it
\* passed before (each press of the calculation button does)
Rellamar ==
    /\ pc \in {"ffd_done", "fa_done"}
    /\ rellamada' = TRUE
    /\ UNCHANGED varsSesion
    /\ pc' = IF pc = "ffd_done" THEN "ffd_call" ELSE "fa_call"
    /\ UNCHANGED <<pedidos, longitud_rollo, piezas, idx, rollos,
                   watts_por_metro, fuentes_disponibles, factor_seguridad,
                   piezas_consumo, fuentes_en_uso, conteo_fuentes, detalles,
                   acum, estadisticas>>
    /\ UNCHANGED varsIndividual

Next ==
    \/ FFD_Expandir
    \/ FFD_Colocar
    \/ FFD_Return
    \/ FA_Expandir
    \/ FA_Asignar
    \/ FA_FinAsignar
    \/ FA_Detallar
    \/ FA_Return
    \/ OFI_Return
    \/ IND_Preparar
    \/ IND_Asignar
    \/ IND_Guardar

Spec == Init /\ [][Next]_vars

\* the packers called again and again by one caller
InitLlamadas ==
    /\ (InitFFD \/ InitFuentes)
    /\ InitLocales

NextLlamadas ==
    \/ FFD_Expandir
    \/ FFD_Colocar
    \/ FFD_Return
    \/ FA_Expandir
    \/ FA_Asignar
    \/ FA_FinAsignar
    \/ FA_Detallar
    \/ FA_Return
    \/ Rellamar

SpecLlamadas == InitLlamadas /\ [][NextLlamadas]_vars

\* ------------------------------------------------------------------------
\* The session: the handlers of the page on st.session_state
\* ------------------------------------------------------------------------
\* the loop "for largo, cant in pedidos_dict.items()" of the individual mode
RECURSIVE AsignarIndividualTodas(_, _, _, _, _, _)
AsignarIndividualTodas(conteo, dets, items, watts, disponibles, factor) ==
    IF items = <<>> THEN [conteo |-> conteo, detalles |-> dets]
    ELSE LET r == AsignarIndividual(conteo, dets, Head(items), watts,
                                    disponibles, factor)
         IN  AsignarIndividualTodas(r.conteo, r.detalles, Tail(items), watts,
                                    disponibles, factor)

\* what the calculation handler stores in st.session_state.resultados_fuentes
\* for the ratings typed (parsed, not yet sorted) and the other widgets
ResultadosFuentes(ps, enabled, ratings, watts, factor, modo) ==
    LET disponibles == sorted(ratings)
    IN  IF ~enabled \/ disponibles = <<>> THEN None
        ELSE IF modo = "Una fuente por corte"
        THEN LET r == AsignarIndividualTodas(<<>>, <<>>, PedidosDict(ps),
                                             watts, disponibles, factor)
             IN  [modo |-> "individual",
                  conteo |-> r.conteo,
                  detalles |-> r.detalles]
        ELSE LET t == optimizar_fuentes_agrupadas(ps, watts, disponibles,
                                                  factor)
             IN  [modo |-> "optimizado",
                  conteo |-> t[1],
                  detalles |-> t[2],
                  estadisticas |-> t[3]]

\* value=10.0 of the roll length widget
LongitudInicial == 10
\* values the widgets of the session take
LongitudesSesion == {3, LongitudInicial}
LargosSesion == {2, 5}
CantidadesSesion == {1, 2}
CatalogosSesion == {<<>>, <<W(100), W(30), W(60)>>}
ModosSesion == {"Una fuente por corte", "Optimizar fuentes (agrupar)"}
Emails == {"admin@jenny.com"}

\* the page is past check_authentication
SesionAbierta == pc \in {"sesion", "calculado"} /\ authenticated

\* the variables of the packers, which the session leaves alone
varsLlamada ==
    <<piezas, idx, rollos, watts_por_metro, fuentes_disponibles,
      factor_seguridad, piezas_consumo, fuentes_en_uso, conteo_fuentes,
      detalles, acum, estadisticas, pedidos_dict, consumo_requerido,
      resultado, rellamada>>

InitSesion ==
    /\ pc = "login"
    /\ pedidos = <<>>
    /\ longitud_rollo = LongitudInicial
    /\ watts_por_metro = 0
    /\ fuentes_disponibles = <<>>
    /\ factor_seguridad = 0
    /\ consumo_requerido = 0
    /\ InitLocales

\* the login form with an authorised e-mail; the widgets are drawn anew
S_Login ==
    /\ pc = "login"
    /\ ~authenticated
    /\ \E email \in Emails : user_email' = <<email>>
    /\ authenticated' = TRUE
    /\ longitud_rollo' = LongitudInicial
    /\ pc' = "sesion"
    /\ UNCHANGED <<pedidos, resultados, resultados_fuentes,
                   calcular_fuentes_enabled>>
    /\ UNCHANGED varsLlamada

S_CerrarSesion ==
    /\ SesionAbierta
    /\ authenticated' = FALSE
    /\ user_email' = None
    /\ pedidos' = <<>>
    /\ resultados' = None
    /\ resultados_fuentes' = None
    /\ pc' = "login"
    /\ UNCHANGED <<longitud_rollo, calcular_fuentes_enabled>>
    /\ UNCHANGED varsLlamada

\* the user changes the roll length widget: the script runs again
S_CambiarLongitud ==
    /\ SesionAbierta
    /\ \E l \in LongitudesSesion \ {longitud_rollo} : longitud_rollo' = l
    /\ pc' = "sesion"
    /\ UNCHANGED <<pedidos, resultados, resultados_fuentes, authenticated,
                   user_email, calcular_fuentes_enabled>>
    /\ UNCHANGED varsLlamada

\* "Agregar Corte": the widget offers lengths up to the roll length
S_AgregarCorte ==
    /\ SesionAbierta
    /\ Len(pedidos) < MaxPedidos
    /\ \E largo_pieza \in {l \in LargosSesion : l <= longitud_rollo},
          cantidad \in CantidadesSesion :
           pedidos' = IF largo_pieza > longitud_rollo THEN pedidos
                      ELSE Append(pedidos, Pedido(largo_pieza, cantidad))
    /\ pc' = "sesion"
    /\ UNCHANGED <<longitud_rollo, resultados, resultados_fuentes,
                   authenticated, user_email, calcular_fuentes_enabled>>
    /\ UNCHANGED varsLlamada

\* "Limpiar Lista", drawn only when the list is not empty
S_LimpiarLista ==
    /\ SesionAbierta
    /\ pedidos # <<>>
    /\ pedidos' = <<>>
    /\ resultados' = None
    /\ resultados_fuentes' = None
    /\ pc' = "sesion"
    /\ UNCHANGED <<longitud_rollo, authenticated, user_email,
                   calcular_fuentes_enabled>>
    /\ UNCHANGED varsLlamada

\* the checkbox "Calcular fuentes"
S_Checkbox ==
    /\ SesionAbierta
    /\ calcular_fuentes_enabled' = ~calcular_fuentes_enabled
    /\ pc' = "sesion"
    /\ UNCHANGED <<pedidos, longitud_rollo, resultados, resultados_fuentes,
                   authenticated, user_email>>
    /\ UNCHANGED varsLlamada

\* mutant: the button is enabled with an empty list too
S_Calcular_sinDeshabilitar ==
    /\ SesionAbierta
    /\ resultados' = <<first_fit_decreasing(pedidos, longitud_rollo)>>
    /\ \E ratings \in CatalogosSesion, w \in ConsumosPorMetro,
          f \in FactoresSlider, modo \in ModosSesion :
           resultados_fuentes' =
               ResultadosFuentes(pedidos, calcular_fuentes_enabled, ratings,
                                 w, f, modo)
    /\ pc' = "calculado"
    /\ UNCHANGED <<pedidos, longitud_rollo, authenticated, user_email,
                   calcular_fuentes_enabled>>
    /\ UNCHANGED varsLlamada

\* "Calcular Optimizacion", disabled while the list is empty
S_Calcular ==
    /\ SesionAbierta
    /\ Len(pedidos) # 0
    /\ resultados' = <<first_fit_decreasing(pedidos, longitud_rollo)>>
    /\ \E ratings \in CatalogosSesion, w \in ConsumosPorMetro,
          f \in FactoresSlider, modo \in ModosSesion :
           resultados_fuentes' =
               ResultadosFuentes(pedidos, calcular_fuentes_enabled, ratings,
                                 w, f, modo)
    /\ pc' = "calculado"
    /\ UNCHANGED <<pedidos, longitud_rollo, authenticated, user_email,
                   calcular_fuentes_enabled>>
    /\ UNCHANGED varsLlamada

NextSesion ==
    \/ S_Login
    \/ S_CerrarSesion
    \/ S_CambiarLongitud
    \/ S_AgregarCorte
    \/ S_LimpiarLista
    \/ S_Checkbox
    \/ S_Calcular

SpecSesion == InitSesion /\ [][NextSesion]_vars

\* ------------------------------------------------------------------------
\* Notions the properties are stated with
\* ------------------------------------------------------------------------
Count(s, x) == Cardinality({j \in 1..Len(s) : s[j] = x})

\* number of units of length x the order list asks for
UnidadesPedidas(x) ==
    SumSeq([j \in 1..Len(pedidos) |->
              IF pedidos[j].largo = x THEN pedidos[j].cantidad ELSE 0])

\* number of pieces of length x over all rolls
UnidadesEnRollos(x) ==
    SumSeq([r \in 1..Len(rollos) |-> Count(rollos[r].piezas, x)])

EnFFD == pc \in {"ffd_call", "ffd_loop", "ffd_done"}
EnFuentes == pc \in {"fa_call", "fa_loop", "fa_format", "fa_done"}

\* some ordered unit is longer than the roll
HayPiezaExcedida ==
    \E j \in 1..Len(pedidos) :
        pedidos[j].cantidad > 0 /\ pedidos[j].largo > longitud_rollo

\* C1: when first_fit_decreasing returns, the pieces over all returned rolls
\* are exactly the ordered units: for every length, as many pieces as units
\* ordered (none dropped, none duplicated).
C1_TodaUnidadAsignada ==
    pc = "ffd_done" =>
        \A x \in Largos : UnidadesEnRollos(x) = UnidadesPedidas(x)

\* C2: when a unit is longer than the roll, the call creates no roll and
\* returns no plan.
C2_PiezaExcedidaRechazada ==
    (EnFFD /\ HayPiezaExcedida) => (rollos = <<>> /\ pc # "ffd_done")

\* C3: in every roll, at every step of the packing loop and in the returned
\* plan, espacio_usado <= longitud_total, and espacio_usado is the total
\* length of the roll's pieces.
C3_UsadoDentroDeCapacidad ==
    \A r \in 1..Len(rollos) :
        /\ rollos[r].espacio_usado <= rollos[r].longitud_total
        /\ rollos[r].espacio_usado = SumSeq(rollos[r].piezas)

C3_Witness ==
    /\ pc = "ffd_loop"
    /\ idx < Len(piezas)
    /\ \E r \in 1..Len(rollos) :
          /\ Len(rollos[r].piezas) >= 2
          /\ rollos[r].espacio_usado = rollos[r].longitud_total
    /\ \E r \in 1..Len(rollos) :
          rollos[r].espacio_usado + piezas[idx + 1] > rollos[r].longitud_total

\* the pieces are in non-increasing order and are the ordered units
C4_Orden ==
    pc \in {"ffd_loop", "ffd_done"} =>
        /\ \A j \in 1..Len(piezas) : \A k \in 1..Len(piezas) :
              j < k => piezas[j] >= piezas[k]
        /\ \A x \in Largos : Count(piezas, x) = UnidadesPedidas(x)

\* one iteration of the loop: the unit piezas[idx + 1] goes to the first
\* roll, in creation order, with capacity - used >= its magnitude; a roll
\* is opened only when no existing roll has, it has the configured length,
\* and the unit goes to it when it has the room
C4_Paso ==
    (pc = "ffd_loop" /\ idx' = idx + 1) =>
        LET p == piezas[idx + 1]
            resto(rs, r) == rs[r].longitud_total - rs[r].espacio_usado
            cabe == {r \in 1..Len(rollos) : resto(rollos, r) >= p}
        IN  IF cabe # {}
            THEN /\ Len(rollos') = Len(rollos)
                 /\ \E r \in cabe :
                      /\ \A q \in cabe : r <= q
                      /\ rollos'[r].piezas = Append(rollos[r].piezas, p)
                      /\ rollos'[r].espacio_usado = rollos[r].espacio_usado + p
                      /\ rollos'[r].longitud_total = rollos[r].longitud_total
                      /\ \A q \in 1..Len(rollos) : q # r => rollos'[q] = rollos[q]
            ELSE /\ Len(rollos') = Len(rollos) + 1
                 /\ \A q \in 1..Len(rollos) : rollos'[q] = rollos[q]
                 /\ rollos'[Len(rollos')].longitud_total = longitud_rollo
                 /\ rollos'[Len(rollos')].piezas =
                        IF longitud_rollo >= p THEN <<p>> ELSE <<>>

\* the two worked examples: orders {6,1},{5,1} with capacity 10, and {5,2};
\* they are evaluated where a call returns, together with the returned plan
C4_Ejemplos ==
    pc = "ffd_done" =>
        /\ LET rs == first_fit_decreasing(<<Pedido(6, 1), Pedido(5, 1)>>, 10)
           IN  /\ Len(rs) = 2
               /\ rs[1].piezas = <<6>>
               /\ rs[2].piezas = <<5>>
               /\ desperdicio(rs[1]) + desperdicio(rs[2]) = 9
        /\ LET rs == first_fit_decreasing(<<Pedido(5, 2)>>, 10)
           IN  /\ Len(rs) = 1
               /\ rs[1].piezas = <<5, 5>>
               /\ desperdicio(rs[1]) = 0
        /\ rollos = first_fit_decreasing(pedidos, longitud_rollo)

\* C4: first_fit_decreasing follows First-Fit-Decreasing: the units are
\* processed in non-increasing order, each goes to the first roll in
\* creation order whose remaining capacity is >= its magnitude, a roll of
\* the configured length is opened only when no existing roll fits, and the
\* two worked examples give [6],[5] with waste 9 and [5,5] with waste 0.
C4_FirstFitDecreasing ==
    /\ [](C4_Orden /\ C4_Ejemplos)
    /\ [][C4_Paso]_vars

\* a unit went to the second of two existing rolls although a third piece
\* was already in the first, and a roll was opened for a later unit
C4_Witness ==
    /\ pc = "ffd_done"
    /\ Len(rollos) >= 2
    /\ Len(rollos[1].piezas) >= 2
    /\ Len(rollos[2].piezas) >= 2
    /\ rollos[1].espacio_usado < rollos[1].longitud_total

\* the ratings of the catalog
Catalogo == {fuentes_disponibles[j] : j \in 1..Len(fuentes_disponibles)}

\* adjusted and unadjusted consumption placed on a source
SumaAjustado(fuente) ==
    SumSeq([j \in 1..Len(fuente.piezas) |-> fuente.piezas[j].consumo_ajustado])
SumaReal(fuente) ==
    SumSeq([j \in 1..Len(fuente.piezas) |-> fuente.piezas[j].consumo_real])

\* the iteration of the assignment loop on piezas_consumo[idx + 1]
PasoAsignar == pc = "fa_loop" /\ idx' = idx + 1
\* ... that found no existing source with room for the unit
SinFuenteExistente ==
    \A f \in 1..Len(fuentes_en_uso) :
        fuentes_en_uso[f].restante < piezas_consumo[idx + 1].consumo_ajustado
AbreFuente == PasoAsignar /\ Len(fuentes_en_uso') = Len(fuentes_en_uso) + 1

\* a source opened for a unit some rating covers has the smallest such rating
C5_Paso ==
    LET consumo == piezas_consumo[idx + 1].consumo_ajustado
        nueva == fuentes_en_uso'[Len(fuentes_en_uso')]
    IN  (AbreFuente /\ \E c \in Catalogo : c >= consumo) =>
            /\ nueva.potencia \in Catalogo
            /\ nueva.potencia >= consumo
            /\ \A c \in Catalogo : c >= consumo => nueva.potencia <= c

\* the worked example in watts: ratings {30, 60, 100}, one piece of 80 W,
\* factor 1.2 (4 length units at 20 W each)
C5_EntradaEjemplo ==
    /\ Catalogo = {W(30), W(60), W(100)}
    /\ factor_seguridad = 120
    /\ Len(pedidos) = 1
    /\ pedidos[1].cantidad = 1
    /\ pedidos[1].largo * watts_por_metro = W(80)

C5_Ejemplo ==
    (pc = "fa_done" /\ C5_EntradaEjemplo) =>
        /\ Len(fuentes_en_uso) = 1
        /\ fuentes_en_uso[1].potencia = W(100)
        /\ consumo_total(fuentes_en_uso[1]) = W(96)
        /\ detalles[1].Estado # "SOBRECARGA"
        /\ estadisticas.fuentes_sobrecargadas = 0

\* C5: whenever optimizar_fuentes_agrupadas opens a source for a unit and
\* some catalog rating is >= the unit's adjusted consumption, the source has
\* the smallest such rating; ratings {30,60,100} with one 80 W piece and
\* factor 1.2 give one source of 100 W with 96 W used, not overloaded.
C5_MenorFuenteSuficiente ==
    /\ [][C5_Paso]_vars
    /\ []C5_Ejemplo

C5_Witness == pc = "fa_done" /\ C5_EntradaEjemplo

\* a unit no rating covers gets a source of the largest rating for itself
C6_Paso ==
    LET pieza == piezas_consumo[idx + 1]
        nueva == fuentes_en_uso'[Len(fuentes_en_uso')]
    IN  (/\ PasoAsignar
         /\ SinFuenteExistente
         /\ Catalogo # {}
         /\ \A c \in Catalogo : c < pieza.consumo_ajustado) =>
            /\ Len(fuentes_en_uso') = Len(fuentes_en_uso) + 1
            /\ \A f \in 1..Len(fuentes_en_uso) :
                  fuentes_en_uso'[f] = fuentes_en_uso[f]
            /\ nueva.potencia \in Catalogo
            /\ \A c \in Catalogo : c <= nueva.potencia
            /\ nueva.piezas = <<pieza>>
            /\ consumo_total(nueva) = pieza.consumo_ajustado
            /\ consumo_total(nueva) > nueva.potencia

\* units of the order list no rating covers
UnidadesSinCobertura ==
    {j \in 1..Len(piezas_consumo) :
        \A c \in Catalogo : c < piezas_consumo[j].consumo_ajustado}

\* sources that hold one such unit
FuentesSinCobertura ==
    {f \in 1..Len(fuentes_en_uso) :
        /\ Len(fuentes_en_uso[f].piezas) = 1
        /\ \A c \in Catalogo :
              c < fuentes_en_uso[f].piezas[1].consumo_ajustado}

\* in the returned plan every such unit has its source, reported overloaded
C6_Plan ==
    (pc = "fa_done" /\ Catalogo # {}) =>
        /\ Cardinality(FuentesSinCobertura) = Cardinality(UnidadesSinCobertura)
        /\ \A f \in FuentesSinCobertura :
              /\ detalles[f].Consumo > detalles[f].Potencia
              /\ detalles[f].Estado = "SOBRECARGA"

\* C6: when a unit needs a new source and no rating of the non-empty
\* catalog is >= its adjusted consumption, a source of the largest rating is
\* opened holding that unit, with used > capacity, and the returned plan
\* reports it with state SOBRECARGA; the unit is not dropped.
C6_SobrecargaEnMayorFuente ==
    /\ [][C6_Paso]_vars
    /\ []C6_Plan

\* ratings 30, 60, 100 and a unit of 120 W adjusted
C6_Witness ==
    /\ pc = "fa_done"
    /\ Cardinality(Catalogo) = 3
    /\ UnidadesSinCobertura # {}
    /\ \E f \in 1..Len(fuentes_en_uso) : fuentes_en_uso[f].restante >= 0

\* a source holds more than its rating only if it is overloaded
C7_Plan ==
    EnFuentes =>
        \A f \in 1..Len(fuentes_en_uso) :
            SumaAjustado(fuentes_en_uso[f]) > fuentes_en_uso[f].potencia =>
                /\ fuentes_en_uso[f].restante < 0
                /\ f <= Len(detalles) => detalles[f].Estado = "SOBRECARGA"

\* a unit placed on an existing source leaves it within its rating
C7_Paso ==
    PasoAsignar =>
        \A f \in 1..Len(fuentes_en_uso) :
            fuentes_en_uso'[f] # fuentes_en_uso[f] =>
                /\ fuentes_en_uso'[f].potencia = fuentes_en_uso[f].potencia
                /\ SumaAjustado(fuentes_en_uso'[f]) <= fuentes_en_uso'[f].potencia

\* C7: the adjusted consumption placed on a source exceeds its capacity
\* only if the source is flagged overloaded (remaining < 0, state SOBRECARGA
\* in the returned detail), and placing a unit on an existing source never
\* takes that source over its capacity.
C7_SoloSobrecargaExcede ==
    /\ []C7_Plan
    /\ [][C7_Paso]_vars

\* an overloaded source and a shared source filled to the brim in one plan
C7_Witness ==
    /\ pc = "fa_done"
    /\ \E f \in 1..Len(fuentes_en_uso) : fuentes_en_uso[f].restante < 0
    /\ \E f \in 1..Len(fuentes_en_uso) :
          /\ Len(fuentes_en_uso[f].piezas) >= 2
          /\ fuentes_en_uso[f].restante = 0

\* C8: with an empty catalog and at least one unit, optimizar_fuentes_agrupadas
\* does not return a plan.
C8_CatalogoVacioFalla ==
    (EnFuentes /\ fuentes_disponibles = <<>>
        /\ \E j \in 1..Len(pedidos) : pedidos[j].cantidad > 0) =>
            pc # "fa_done"

\* C9: total_consumo_real is the sum of the unadjusted consumptions of the
\* pieces placed on the sources.
C9_ConsumoRealSinAjuste ==
    pc = "fa_done" =>
        estadisticas.total_consumo_real =
            SumSeq([f \in 1..Len(fuentes_en_uso) |-> SumaReal(fuentes_en_uso[f])])

\* C10: eficiencia_promedio, as a percentage, is the unadjusted consumption
\* placed divided by the installed capacity, and 0 when no capacity is
\* installed.
C10_EficienciaSobreConsumoReal ==
    pc = "fa_done" =>
        LET real == SumSeq([f \in 1..Len(fuentes_en_uso) |->
                              SumaReal(fuentes_en_uso[f])])
            instalada == estadisticas.total_capacidad_instalada
            e == estadisticas.eficiencia_promedio
        IN  IF instalada = 0 THEN e.num = 0
            ELSE e.num * instalada = real * 100 * e.den

\* C11: capacidad_desperdiciada is the sum over the sources of
\* max(0, capacity - used), used being the adjusted consumption placed on the
\* source: an overloaded source adds zero, and the statistic is >= 0.
C11_DesperdicioSinNegativos ==
    pc = "fa_done" =>
        /\ estadisticas.capacidad_desperdiciada =
              SumSeq([f \in 1..Len(fuentes_en_uso) |->
                        IF fuentes_en_uso[f].potencia
                               > SumaAjustado(fuentes_en_uso[f])
                        THEN fuentes_en_uso[f].potencia
                               - SumaAjustado(fuentes_en_uso[f])
                        ELSE 0])
        /\ estadisticas.capacidad_desperdiciada >= 0

\* a plan with an overloaded source and a source with capacity to spare
C11_Witness ==
    /\ pc = "fa_done"
    /\ \E f \in 1..Len(fuentes_en_uso) :
          SumaAjustado(fuentes_en_uso[f]) > fuentes_en_uso[f].potencia
    /\ estadisticas.capacidad_desperdiciada > 0

\* sources of the plan that hold more than their rating
Sobrecargadas ==
    {f \in 1..Len(fuentes_en_uso) :
        SumaAjustado(fuentes_en_uso[f]) > fuentes_en_uso[f].potencia}

\* C12: fuentes_sobrecargadas is the number of sources whose used capacity
\* exceeds their rating, and exactly those sources have the state SOBRECARGA
\* in the per-source detail.
C12_ConteoSobrecargadas ==
    pc = "fa_done" =>
        /\ estadisticas.fuentes_sobrecargadas = Cardinality(Sobrecargadas)
        /\ Len(detalles) = Len(fuentes_en_uso)
        /\ \A f \in 1..Len(fuentes_en_uso) :
              (detalles[f].Estado = "SOBRECARGA") <=> (f \in Sobrecargadas)

\* two overloaded sources next to a source used to the last watt
C12_Witness ==
    /\ pc = "fa_done"
    /\ Cardinality(Sobrecargadas) = 2
    /\ \E f \in 1..Len(fuentes_en_uso) :
          SumaAjustado(fuentes_en_uso[f]) = fuentes_en_uso[f].potencia

\* the adjusted consumption of the direct call, and the ratings that cover it
C13_Ajustado == (consumo_requerido * factor_seguridad) \div 100
C13_Suficientes == {c \in Catalogo : c >= C13_Ajustado}

\* C13: obtener_fuente_adecuada_individual returns the smallest rating >=
\* consumption x factor with no warning if there is one; otherwise, with a
\* non-empty catalog, the largest rating with an overflow warning; with an
\* empty catalog, None.  Every call returns.
C13_AsignadorIndividual ==
    pc = "ofi_done" =>
        IF C13_Suficientes # {}
        THEN /\ resultado.fuente # None
             /\ resultado.fuente[1] \in C13_Suficientes
             /\ \A c \in C13_Suficientes : resultado.fuente[1] <= c
             /\ resultado.advertencia = ""
        ELSE IF Catalogo # {}
        THEN /\ resultado.fuente # None
             /\ resultado.fuente[1] \in Catalogo
             /\ \A c \in Catalogo : c <= resultado.fuente[1]
             /\ resultado.advertencia = "excede todas las fuentes"
        ELSE resultado.fuente = None

\* a consumption above the three ratings of the catalog
C13_Witness ==
    /\ pc = "ofi_done"
    /\ Cardinality(Catalogo) = 3
    /\ C13_Suficientes = {}
    /\ resultado.fuente = <<W(100)>>

RECURSIVE SumaValores(_, _)
SumaValores(f, S) ==
    IF S = {} THEN 0
    ELSE LET k == CHOOSE k \in S : TRUE IN f[k] + SumaValores(f, S \ {k})

LargosPedidos == {pedidos[j].largo : j \in 1..Len(pedidos)}
TotalUnidades == SumSeq([j \in 1..Len(pedidos) |-> pedidos[j].cantidad])

\* C14: in the individual mode the assigner runs once per distinct order
\* length, orders of equal length being merged, its source is counted once
\* per unit of that length, and the sources reported total the units ordered.
C14_UnaFuentePorUnidad ==
    (pc = "ind_done" /\ resultados_fuentes # None) =>
        LET conteo == resultados_fuentes.conteo
            filas == resultados_fuentes.detalles
        IN  /\ idx = Cardinality(LargosPedidos)
            /\ Len(filas) = Cardinality(LargosPedidos)
            /\ \A x \in LargosPedidos :
                  \E j \in 1..Len(filas) :
                      /\ filas[j].Largo = x
                      /\ filas[j].Cantidad = UnidadesPedidas(x)
            /\ \A k \in DOMAIN conteo :
                  conteo[k] = SumSeq([j \in 1..Len(filas) |->
                                        IF filas[j].Fuente = k
                                        THEN filas[j].Cantidad ELSE 0])
            /\ SumaValores(conteo, DOMAIN conteo) = TotalUnidades

\* two orders of one length merged, three units or more, two ratings in use
C14_Witness ==
    /\ pc = "ind_done"
    /\ resultados_fuentes # None
    /\ Len(pedidos) = 2
    /\ pedidos[1].largo = pedidos[2].largo
    /\ TotalUnidades >= 3

\* the order lists that ask for the same lengths as ps with no more units of
\* any of them: ps is such a list plus additional units
DemandasMenores(ps) ==
    {[j \in 1..Len(ps) |-> Pedido(ps[j].largo, c[j])] :
        c \in {d \in [1..Len(ps) -> Cantidades] :
                  \A j \in 1..Len(ps) : d[j] <= ps[j].cantidad}}

C17_ListaVacia ==
    /\ (pc = "ffd_done" /\ pedidos = <<>>) => rollos = <<>>
    /\ (pc = "fa_done" /\ pedidos = <<>>) =>
          /\ fuentes_en_uso = <<>>
          /\ detalles = <<>>
          /\ DOMAIN conteo_fuentes = {}
          /\ estadisticas.total_fuentes = 0
          /\ estadisticas.total_consumo_real = 0
          /\ estadisticas.total_capacidad_instalada = 0
          /\ estadisticas.capacidad_desperdiciada = 0
          /\ estadisticas.fuentes_sobrecargadas = 0
          /\ estadisticas.total_piezas = 0
          /\ estadisticas.eficiencia_promedio.num = 0
          /\ estadisticas.eficiencia_promedio.den > 0

C17_Witness ==
    /\ pc = "fa_done"
    /\ pedidos = <<>>
    /\ fuentes_disponibles # <<>>
    /\ estadisticas # None

\* no step of a call changes the arguments of the caller
C18_EntradasIntactas ==
    /\ pedidos' = pedidos
    /\ fuentes_disponibles' = fuentes_disponibles
    /\ longitud_rollo' = longitud_rollo
    /\ watts_por_metro' = watts_por_metro
    /\ factor_seguridad' = factor_seguridad

\* what a call returns is what the packer gives for the arguments alone,
\* whichever calls came before
C18_ResultadoPropio ==
    /\ pc = "ffd_done" =>
           rollos = first_fit_decreasing(pedidos, longitud_rollo)
    /\ pc = "fa_done" =>
           <<conteo_fuentes, detalles, estadisticas>> =
               optimizar_fuentes_agrupadas(pedidos, watts_por_metro,
                                           fuentes_disponibles,
                                           factor_seguridad)

\* C18: the packers have no effect on their inputs: while and after
\* first_fit_decreasing or optimizar_fuentes_agrupadas runs, the order list
\* of the caller (orders, lengths, counts, their order) and the catalog list
\* are as they were, and the result of a later call is that of the packer
\* on its arguments, whatever an earlier call left behind.
C18_SinEfectosEnEntradas ==
    /\ [][C18_EntradasIntactas]_vars
    /\ []C18_ResultadoPropio

\* a second call of the catalog packer returned, on a catalog out of order
\* and orders in increasing length, with a source in the plan of each call
C18_Witness ==
    /\ pc = "fa_done"
    /\ rellamada
    /\ fuentes_disponibles = <<W(100), W(30), W(60)>>
    /\ Len(pedidos) = 2
    /\ pedidos[1].largo < pedidos[2].largo
    /\ pedidos[1].cantidad > 0
    /\ Len(fuentes_en_uso) >= 1

\* C19: the expansion of each packer gives exactly sum(cantidad) units, as
\* many of each length as ordered, zero counts included; in the catalog
\* packer equal lengths are merged first, each unit carries its length and
\* largo x watts_por_metro, and total_piezas is sum(cantidad).
C19_Expansion ==
    /\ pc \in {"ffd_loop", "ffd_done"} =>
          /\ Len(piezas) = TotalUnidades
          /\ \A x \in Largos : Count(piezas, x) = UnidadesPedidas(x)
    /\ pc \in {"fa_loop", "fa_format", "fa_done"} =>
          /\ Len(piezas_consumo) = TotalUnidades
          /\ \A x \in Largos :
                Cardinality({j \in 1..Len(piezas_consumo) :
                                piezas_consumo[j].largo = x})
                    = UnidadesPedidas(x)
          /\ \A j \in 1..Len(piezas_consumo) :
                piezas_consumo[j].consumo_real
                    = piezas_consumo[j].largo * watts_por_metro
    /\ pc = "fa_done" => estadisticas.total_piezas = TotalUnidades

\* two orders of one length, three units in all
C19_Witness ==
    /\ pc = "fa_done"
    /\ Len(pedidos) = 2
    /\ pedidos[1].largo = pedidos[2].largo
    /\ pedidos[1].cantidad = 2
    /\ pedidos[2].cantidad = 1
    /\ estadisticas.total_piezas = 3

\* used capacity is the adjusted consumption of the pieces of the source
C20_Fuentes ==
    EnFuentes =>
        /\ \A f \in 1..Len(fuentes_en_uso) :
              fuentes_en_uso[f].potencia - fuentes_en_uso[f].restante
                  = SumaAjustado(fuentes_en_uso[f])
        /\ \A j \in 1..Len(piezas_consumo) :
              piezas_consumo[j].consumo_ajustado * 100
                  = piezas_consumo[j].largo * watts_por_metro * factor_seguridad

\* a unit joins an existing source only if the adjusted consumption fits,
\* and the adjusted consumption is what it takes from the source
C20_Paso ==
    PasoAsignar =>
        \A f \in 1..Len(fuentes_en_uso) :
            fuentes_en_uso'[f] # fuentes_en_uso[f] =>
                /\ fuentes_en_uso[f].restante
                      >= piezas_consumo[idx + 1].consumo_ajustado
                /\ fuentes_en_uso'[f].restante
                      = fuentes_en_uso[f].restante
                          - piezas_consumo[idx + 1].consumo_ajustado

\* C20: after every step of the assignment loop, potencia - restante of each
\* source in use is the sum of the adjusted consumptions of its pieces; the
\* safety margin is charged in the fit test and in the consumption.
C20_InvarianteDeFuente ==
    /\ []C20_Fuentes
    /\ [][C20_Paso]_vars

\* mid-loop, factor above 1, a source shared by two pieces
C20_Witness ==
    /\ pc = "fa_loop"
    /\ idx < Len(piezas_consumo)
    /\ factor_seguridad > 100
    /\ \E f \in 1..Len(fuentes_en_uso) : Len(fuentes_en_uso[f].piezas) >= 2

\* C21: in the plan first_fit_decreasing builds and returns, no piece of a
\* later roll would still fit into an earlier roll: for rolls i < j in
\* creation order and every piece x of roll j, espacio_usado of roll i plus
\* x exceeds the roll length.
C21_NingunaPiezaCabeAntes ==
    pc \in {"ffd_loop", "ffd_done"} =>
        \A i, j \in 1..Len(rollos) :
            i < j =>
                \A k \in 1..Len(rollos[j].piezas) :
                    rollos[i].espacio_usado + rollos[j].piezas[k]
                        > rollos[i].longitud_total

\* a returned plan whose first roll holds two pieces and still has room,
\* with a piece in the second roll
C21_Witness ==
    /\ pc = "ffd_done"
    /\ Len(rollos) >= 2
    /\ Len(rollos[1].piezas) >= 2
    /\ rollos[1].espacio_usado < rollos[1].longitud_total
    /\ rollos[2].piezas # <<>>

\* C22: in the plan of the catalog packer the capacities of the sources are
\* non-increasing in creation order (F-1, F-2, ...), after every assignment
\* and in the returned plan, whatever the orders, the factor and the catalog.
C22_CapacidadesNoCrecientes ==
    pc \in {"fa_loop", "fa_format", "fa_done"} =>
        \A i, j \in 1..Len(fuentes_en_uso) :
            i < j => fuentes_en_uso[i].potencia >= fuentes_en_uso[j].potencia

\* a returned plan with a larger source before a smaller one, for orders
\* given in increasing length and a catalog out of order
C22_Witness ==
    /\ pc = "fa_done"
    /\ fuentes_disponibles = <<W(100), W(30), W(60)>>
    /\ Len(pedidos) = 2
    /\ pedidos[1].largo < pedidos[2].largo
    /\ Len(fuentes_en_uso) >= 2
    /\ fuentes_en_uso[1].potencia > fuentes_en_uso[Len(fuentes_en_uso)].potencia

\* C23: in the catalog packer a source has a negative remaining capacity
\* only if it holds exactly one piece and the adjusted consumption of that
\* piece exceeds every rating of the catalog; this holds after every
\* assignment, so a source once overloaded never receives a further piece.
C23_SobrecargaDeUnaPieza ==
    pc \in {"fa_loop", "fa_format", "fa_done"} =>
        \A f \in 1..Len(fuentes_en_uso) :
            fuentes_en_uso[f].restante < 0 =>
                /\ Len(fuentes_en_uso[f].piezas) = 1
                /\ \A c \in Catalogo :
                       fuentes_en_uso[f].piezas[1].consumo_ajustado > c

\* the loop went on after a source was overloaded: a first source below
\* zero and a later source that holds two pieces
C23_Witness ==
    /\ pc = "fa_done"
    /\ Len(fuentes_en_uso) >= 2
    /\ fuentes_en_uso[1].restante < 0
    /\ \E f \in 2..Len(fuentes_en_uso) :
           /\ fuentes_en_uso[f].restante >= 0
           /\ Len(fuentes_en_uso[f].piezas) >= 2

\* number of sources of the plan with capacity c
FuentesDeCapacidad(c) ==
    Cardinality({f \in 1..Len(fuentes_en_uso) : fuentes_en_uso[f].potencia = c})

\* C24: in the triple the catalog packer returns, conteo_fuentes[c] is, for
\* every capacity c, the number of sources of the plan with capacity c (a
\* capacity with no source has no entry), so the values of conteo_fuentes
\* add up to estadisticas.total_fuentes and to the number of rows of
\* detalles.
C24_ConteoPorCapacidad ==
    pc = "fa_done" =>
        /\ \A c \in DOMAIN conteo_fuentes :
               conteo_fuentes[c] = FuentesDeCapacidad(c)
        /\ \A f \in 1..Len(fuentes_en_uso) :
               fuentes_en_uso[f].potencia \in DOMAIN conteo_fuentes
        /\ SumaValores(conteo_fuentes, DOMAIN conteo_fuentes)
               = estadisticas.total_fuentes
        /\ estadisticas.total_fuentes = Len(detalles)

\* a returned plan with two sources of one capacity and a source of another
C24_Witness ==
    /\ pc = "fa_done"
    /\ Cardinality(DOMAIN conteo_fuentes) >= 2
    /\ \E c \in DOMAIN conteo_fuentes : conteo_fuentes[c] >= 2
    /\ Len(detalles) >= 3

\* number of pieces over the rolls rs
PiezasEnRollos(rs) == SumSeq([r \in 1..Len(rs) |-> Len(rs[r].piezas)])

\* C25: whatever the user did before (changed the roll length, added
\* orders, cleared the list, calculated), when "Calcular Optimizacion" has
\* run every order of the session list has a length <= the roll length that
\* was passed to first_fit_decreasing, and the stored result holds exactly
\* sum(cantidad) pieces and no empty roll.
C25_CortesDentroDelRollo ==
    pc = "calculado" =>
        /\ \A j \in 1..Len(pedidos) : pedidos[j].largo <= longitud_rollo
        /\ PiezasEnRollos(resultados[1]) = TotalUnidades
        /\ \A r \in 1..Len(resultados[1]) : resultados[1][r].piezas # <<>>

\* C26: in every state of the session, a result that is not None is a list
\* of at least one roll, stored for a user who is logged in and an order list
\* that is not empty (clearing the list and logging out reset the result),
\* so the result view never takes max, min or a mean over an empty plan.
C26_ResultadoNoVacio ==
    pc \in {"login", "sesion", "calculado"} =>
        (resultados # None =>
            /\ Len(resultados[1]) >= 1
            /\ pedidos # <<>>
            /\ authenticated)

\* a result of two rolls or more is still shown after a later handler ran,
\* with the roll length widget away from its initial value
C26_Witness ==
    /\ pc = "sesion"
    /\ resultados # None
    /\ Len(resultados[1]) >= 2
    /\ longitud_rollo # LongitudInicial

====
